---- MODULE Spec2Model ----
(***************************************************************************)
(* Content negotiation of internal/negotiator/mediatype.go.                *)
(*                                                                         *)
(* A Go string is a sequence of one-character strings.  A quality value is *)
(* an integer number of tenths (q=0.2 is 2, the default 1.0 is 10).        *)
(* Positions are 1-based; 0 stands for Go's "not found" (-1).              *)
(***************************************************************************)
EXTENDS Integers, Sequences, FiniteSets, TLC

(* ------------------------------ bounds -------------------------------- *)

\* segments joined into one Accept header
MaxSegs == 2

\* candidates handed to PreferredMediaTypes
MaxCands == 2

\* successive calls made with the same arguments
MaxCalls == 2

(* --------------------------- string helpers --------------------------- *)

SP == " "

QUOTE == "\""

\* strings.ToLower on one byte, for the letters the inputs use
lower(c) ==
  CASE c = "A" -> "a"
    [] c = "B" -> "b"
    [] OTHER -> c

\* strings.EqualFold
EqualFold(s, t) ==
  /\ Len(s) = Len(t)
  /\ \A k \in 1..Len(s) : lower(s[k]) = lower(t[k])

\* strings.IndexByte: position of the first c in s, 0 when there is none
IndexByte(s, c) ==
  IF \E k \in 1..Len(s) : s[k] = c
    THEN CHOOSE k \in 1..Len(s) : s[k] = c /\ \A j \in 1..(k - 1) : s[j] # c
    ELSE 0

\* strings.TrimSpace
TrimSpace(s) ==
  IF \A k \in 1..Len(s) : s[k] = SP
    THEN << >>
    ELSE LET first == CHOOSE k \in 1..Len(s) :
                        s[k] # SP /\ \A j \in 1..(k - 1) : s[j] = SP
             last == CHOOSE k \in 1..Len(s) :
                        s[k] # SP /\ \A j \in (k + 1)..Len(s) : s[j] = SP
         IN SubSeq(s, first, last)

\* strings.Count(str, "\"")
quoteCount(str) == Cardinality({k \in 1..Len(str) : str[k] = QUOTE})

RECURSIVE Split(_, _)
\* strings.Split(s, sep) for a one-byte separator
Split(s, sep) ==
  LET idx == IndexByte(s, sep)
  IN IF idx = 0
       THEN << s >>
       ELSE << SubSeq(s, 1, idx - 1) >> \o Split(SubSeq(s, idx + 1, Len(s)), sep)

\* strings.SplitN(s, sep, 2)
SplitN2(s, sep) ==
  LET idx == IndexByte(s, sep)
  IN IF idx = 0
       THEN << s >>
       ELSE << SubSeq(s, 1, idx - 1), SubSeq(s, idx + 1, Len(s)) >>

(* ------------------------------ inputs -------------------------------- *)

\* segments an Accept header is assembled from: an exact type, a wildcard
\* of low quality, a rejected type in another case, a segment without '/',
\* a quoted parameter holding a comma, and a type with two parameters
AcceptSegs ==
  { << "a", "/", "b" >>,
    << "*", "/", "*", ";", "q", "=", "0", ".", "2" >>,
    << "A", "/", "b", ";", "q", "=", "0" >>,
    << "x" >>,
    << "a", "/", "b", ";", "p", "=", QUOTE, "x", ",", "y", QUOTE >>,
    << SP, "c", "/", "d", ";", "p", "=", "1", ";", "r", "=", "2" >> }

\* representations a caller offers
CandTypes ==
  { << "a", "/", "b" >>,
    << "x" >>,
    << "c", "/", "d", ";", "p", "=", "1" >>,
    << "c", "/", "d", ";", "p", "=", "1", ";", "r", "=", "2" >> }

RECURSIVE Join(_)
\* segments joined with commas
Join(ss) ==
  IF Len(ss) = 0 THEN << >>
  ELSE IF Len(ss) = 1 THEN ss[1]
  ELSE ss[1] \o << "," >> \o Join(Tail(ss))

Headers == { Join(ss) : ss \in UNION { [1..n -> AcceptSegs] : n \in 0..MaxSegs } }

CandLists == UNION { [1..n -> CandTypes] : n \in 0..MaxCands }

(* ----------------------------- the parser ----------------------------- *)

\* a nil *mediaType
Nil == [nil |-> TRUE]

\* an empty map[string]string
EmptyParams == [k \in {} |-> << >>]

\* m[key] of a Go map: the zero value "" for a missing key
Lookup(m, key) == IF key \in DOMAIN m THEN m[key] ELSE << >>

\* m[key] = value
MapSet(m, key, value) ==
  [k \in DOMAIN m \cup {key} |-> IF k = key THEN value ELSE m[k]]

Digits == {"0", "1", "2"}

DigitVal(c) ==
  CASE c = "0" -> 0
    [] c = "1" -> 1
    [] c = "2" -> 2

\* strconv.ParseFloat(value, 64) on the decimal forms D and D.D with an
\* optional minus sign, in tenths; every other text over the input alphabet
\* is a syntax error
ParseFloat(value) ==
  LET neg == Len(value) > 0 /\ value[1] = "-"
      body == IF neg THEN Tail(value) ELSE value
      sign == IF neg THEN 0 - 1 ELSE 1
  IN IF Len(body) = 1 /\ body[1] \in Digits
       THEN [err |-> FALSE, q |-> sign * 10 * DigitVal(body[1])]
     ELSE IF /\ Len(body) = 3
             /\ body[1] \in Digits
             /\ body[2] = "."
             /\ body[3] \in Digits
       THEN [err |-> FALSE, q |-> sign * (10 * DigitVal(body[1]) + DigitVal(body[3]))]
     ELSE [err |-> TRUE, q |-> 0]

RECURSIVE parseParams(_, _, _)
\* the parameter loop of parseMediaType, from parts[j] on
parseParams(mt, parts, j) ==
  IF j > Len(parts) THEN mt
  ELSE LET param == SplitN2(parts[j], "=")
       IN IF Len(param) # 2
            THEN parseParams(mt, parts, j + 1)
            ELSE LET key == TrimSpace(param[1])
                     value == TrimSpace(param[2])
                     f == ParseFloat(value)
                 IN IF key = << "q" >>
                      THEN parseParams(IF f.err THEN mt ELSE [mt EXCEPT !.Q = f.q],
                                       parts, j + 1)
                      ELSE parseParams([mt EXCEPT !.Params = MapSet(mt.Params, key, value)],
                                       parts, j + 1)

\* parseMediaType with a segment lacking '/' read as a type with an empty
\* subtype instead of being rejected
parseMediaTypeLenient(str, i) ==
  LET parts == Split(str, ";")
      typeAndSubtype == SplitN2(parts[1], "/")
  IN parseParams([Type |-> TrimSpace(typeAndSubtype[1]),
                  Subtype |-> IF Len(typeAndSubtype) = 2
                                THEN TrimSpace(typeAndSubtype[2]) ELSE << >>,
                  Params |-> EmptyParams,
                  Q |-> 10,
                  I |-> i,
                  S |-> 0],
                 parts, 2)

\* parseMediaType: nil for a segment whose base token has no '/'
parseMediaType(str, i) ==
  LET parts == Split(str, ";")
      typeAndSubtype == SplitN2(parts[1], "/")
  IN IF Len(typeAndSubtype) # 2
       THEN Nil
       ELSE parseParams([Type |-> TrimSpace(typeAndSubtype[1]),
                         Subtype |-> TrimSpace(typeAndSubtype[2]),
                         Params |-> EmptyParams,
                         Q |-> 10,
                         I |-> i,
                         S |-> 0],
                        parts, 2)

RECURSIVE parseAcceptFrom(_, _)
\* the loop of parseAccept from segment i (0-based, as in the code) on
parseAcceptFrom(accepts, i) ==
  IF i >= Len(accepts) THEN << >>
  ELSE LET mediaType == parseMediaType(TrimSpace(accepts[i + 1]), i)
       IN (IF mediaType # Nil THEN << mediaType >> ELSE << >>)
            \o parseAcceptFrom(accepts, i + 1)

RECURSIVE parseAcceptAbortingFrom(_, _)
\* parseAccept giving up at the first segment that does not parse
parseAcceptAbortingFrom(accepts, i) ==
  IF i >= Len(accepts) THEN << >>
  ELSE LET mediaType == parseMediaType(TrimSpace(accepts[i + 1]), i)
       IN IF mediaType # Nil
            THEN << mediaType >> \o parseAcceptAbortingFrom(accepts, i + 1)
            ELSE << >>

\* parseAccept that stops at the first malformed segment
parseAcceptAborting(accepts) == parseAcceptAbortingFrom(accepts, 0)

\* parseAccept, applied to the segments splitMediaTypes returned
parseAccept(accepts) == parseAcceptFrom(accepts, 0)

\* isQuality letting a zero quality through
isQualityNonNegative(mediaType) == mediaType.Q >= 0

\* isQuality
isQuality(mediaType) == mediaType.Q > 0

\* getFullType
getFullType(mediaType) == mediaType.Type \o << "/" >> \o mediaType.Subtype

(* ------------------------------ sorting ------------------------------- *)

\* the comparison with the quality key ascending
lessAscending(a, b) ==
  IF a.Q # b.Q THEN a.Q < b.Q
  ELSE IF a.S # b.S THEN a.S > b.S
  ELSE a.I < b.I

\* the less function handed to sort.SliceStable
less(a, b) ==
  IF a.Q # b.Q THEN a.Q > b.Q
  ELSE IF a.S # b.S THEN a.S > b.S
  ELSE a.I < b.I

\* x put before the first element it is less than
insertStable(sorted, x) ==
  IF \E k \in 1..Len(sorted) : less(x, sorted[k])
    THEN LET k == CHOOSE k \in 1..Len(sorted) :
                    less(x, sorted[k]) /\ \A j \in 1..(k - 1) : ~less(x, sorted[j])
         IN SubSeq(sorted, 1, k - 1) \o << x >> \o SubSeq(sorted, k, Len(sorted))
    ELSE Append(sorted, x)

RECURSIVE sortFrom(_, _, _)
sortFrom(sorted, s, k) ==
  IF k > Len(s) THEN sorted ELSE sortFrom(insertStable(sorted, s[k]), s, k + 1)

\* sort.SliceStable(accepts, less): a stable sort, here by insertion
SliceStable(s) == sortFrom(<< >>, s, 1)

(* ------------------------------ matching ------------------------------ *)

\* s |= b for a single bit b
BitOr(s, b) == IF (s \div b) % 2 = 1 THEN s ELSE s + b

\* the orders in which a range over a map with key set S can run
Perms(S) ==
  { o \in [1..Cardinality(S) -> S] : \A key \in S : \E k \in 1..Cardinality(S) : o[k] = key }

\* one iteration order for the Params of each accepted spec
KeyOrders(accepted) ==
  { f \in [1..Len(accepted) -> UNION { Perms(DOMAIN accepted[k].Params) : k \in 1..Len(accepted) }] :
      \A k \in 1..Len(accepted) : f[k] \in Perms(DOMAIN accepted[k].Params) }

\* some iteration order, for evaluating the matcher outside a call
SomeOrders(accepted) == CHOOSE f \in KeyOrders(accepted) : TRUE

\* the range over spec.Params deciding on the first key it visits
paramsLoopFirstOnly(spec, p, ord, k, s) ==
  IF k > Len(ord) THEN s
  ELSE LET key == ord[k]
           val == spec.Params[key]
       IN IF val = << "*" >> \/ EqualFold(val, Lookup(p.Params, key))
            THEN BitOr(s, 1)
            ELSE 0 - 1

RECURSIVE paramsLoop(_, _, _, _, _)
\* the range over spec.Params in specify, visiting the keys in order ord
\* from its k-th key on; -1 stands for the early return nil
paramsLoop(spec, p, ord, k, s) ==
  IF k > Len(ord) THEN s
  ELSE LET key == ord[k]
           val == spec.Params[key]
       IN IF val = << "*" >> \/ EqualFold(val, Lookup(p.Params, key))
            THEN paramsLoop(spec, p, ord, k + 1, BitOr(s, 1))
            ELSE 0 - 1

\* specify letting any subtype of the candidate pass
specifyAnySubtype(typ, spec, index, ord) ==
  LET p == parseMediaType(typ, 0)
  IN IF p = Nil THEN Nil
     ELSE IF ~EqualFold(spec.Type, p.Type) /\ spec.Type # << "*" >> THEN Nil
     ELSE LET s1 == IF EqualFold(spec.Type, p.Type) THEN BitOr(0, 4) ELSE 0
              s2 == IF EqualFold(spec.Subtype, p.Subtype) THEN BitOr(s1, 2) ELSE s1
              s == paramsLoop(spec, p, ord, 1, s2)
          IN IF s < 0 THEN Nil
             ELSE [Type |-> spec.Type,
                   Subtype |-> spec.Subtype,
                   Params |-> spec.Params,
                   Q |-> spec.Q,
                   I |-> index,
                   S |-> s]

\* specify, with the map iteration order ord
specify(typ, spec, index, ord) ==
  LET p == parseMediaType(typ, 0)
  IN IF p = Nil THEN Nil
     ELSE IF ~EqualFold(spec.Type, p.Type) /\ spec.Type # << "*" >> THEN Nil
     ELSE IF ~EqualFold(spec.Subtype, p.Subtype) /\ spec.Subtype # << "*" >> THEN Nil
     ELSE LET s1 == IF EqualFold(spec.Type, p.Type) THEN BitOr(0, 4) ELSE 0
              s2 == IF EqualFold(spec.Subtype, p.Subtype) THEN BitOr(s1, 2) ELSE s1
              s == paramsLoop(spec, p, ord, 1, s2)
          IN IF s < 0 THEN Nil
             ELSE [Type |-> spec.Type,
                   Subtype |-> spec.Subtype,
                   Params |-> spec.Params,
                   Q |-> spec.Q,
                   I |-> index,
                   S |-> s]

\* the replacement test comparing quality before specificity
betterQualityFirst(spec, priority) ==
  spec # Nil /\ (\/ priority = Nil
                 \/ spec.Q > priority.Q
                 \/ (spec.Q = priority.Q /\ spec.S > priority.S))

\* the replacement test of getMediaTypePriority
better(spec, priority) ==
  spec # Nil /\ (\/ priority = Nil
                 \/ spec.S > priority.S
                 \/ (spec.S = priority.S /\ spec.Q > priority.Q))

RECURSIVE priorityLoop(_, _, _, _, _, _)
priorityLoop(typ, accepted, index, ords, k, priority) ==
  IF k > Len(accepted) THEN priority
  ELSE LET spec == specify(typ, accepted[k], index, ords[k])
       IN priorityLoop(typ, accepted, index, ords, k + 1,
                       IF better(spec, priority) THEN spec ELSE priority)

\* getMediaTypePriority
getMediaTypePriority(typ, accepted, index, ords) ==
  priorityLoop(typ, accepted, index, ords, 1, Nil)

(* ----------------------------- the program ---------------------------- *)

VARIABLES
  accept,      \* the caller's Accept header value
  provided,    \* the caller's candidates
  rest,        \* splitMediaTypes: what is left of its local accept
  parts,       \* splitMediaTypes: the segments found so far
  accepts,     \* PreferredMediaTypes: the parsed, sorted specs
  i,           \* PreferredMediaTypes: candidates examined by the loop over provided
  priorities,  \* PreferredMediaTypes: the best matches collected so far
  pc,          \* position of the call: idle, split, parse, match
  results      \* what the calls made so far returned

vars == << accept, provided, rest, parts, accepts, i, priorities, pc, results >>

\* PreferredMediaTypes keeping an empty accept as it is
effectiveAcceptNoDefault(a) == a

\* the accept PreferredMediaTypes works on: "*/*" for the empty string
effectiveAccept(a) == IF a = << >> THEN << "*", "/", "*" >> ELSE a

\* one pass through the body of the loop of splitMediaTypes
splitBody(acc, ps) ==
  LET trimmed == TrimSpace(acc)
      idx == IndexByte(trimmed, ",")
  IN IF idx = 0
       THEN [accept |-> trimmed, parts |-> Append(ps, trimmed), exit |-> TRUE]
     ELSE IF quoteCount(SubSeq(trimmed, 1, idx - 1)) % 2 = 1
       THEN [accept |-> trimmed, parts |-> ps, exit |-> FALSE]
     ELSE [accept |-> SubSeq(trimmed, idx + 1, Len(trimmed)),
           parts |-> Append(ps, SubSeq(trimmed, 1, idx - 1)),
           exit |-> FALSE]

\* the first loop of the no-candidates branch
typesOfAccepts(sorted) ==
  LET kept == SelectSeq(sorted, isQuality)
  IN [k \in 1..Len(kept) |-> getFullType(kept[k])]

\* the final loop of the candidates branch reading cands at the position in
\* the kept list instead of at the index the match carries
typesOfPrioritiesByPosition(ps, cands) ==
  LET kept == SelectSeq(ps, isQuality)
  IN [k \in 1..Len(kept) |-> cands[k]]

\* the final loop of the candidates branch
typesOfPriorities(ps, cands) ==
  LET kept == SelectSeq(ps, isQuality)
  IN [k \in 1..Len(kept) |-> cands[kept[k].I + 1]]

Init ==
  /\ accept \in Headers
  /\ provided \in CandLists
  /\ rest = << >>
  /\ parts = << >>
  /\ accepts = << >>
  /\ i = 0
  /\ priorities = << >>
  /\ pc = "idle"
  /\ results = << >>

\* the caller invokes PreferredMediaTypes(accept, provided...)
Call ==
  /\ pc = "idle"
  /\ Len(results) < MaxCalls
  /\ rest' = effectiveAccept(accept)
  /\ parts' = << >>
  /\ accepts' = << >>
  /\ i' = 0
  /\ priorities' = << >>
  /\ pc' = "split"
  /\ UNCHANGED << accept, provided, results >>

\* one evaluation of the loop condition of splitMediaTypes and, when it
\* holds, one pass through the body
SplitIter ==
  /\ pc = "split"
  /\ IF Len(rest) = 0
       THEN /\ pc' = "parse"
            /\ UNCHANGED << rest, parts >>
       ELSE LET n == splitBody(rest, parts)
            IN /\ rest' = n.accept
               /\ parts' = n.parts
               /\ pc' = IF n.exit THEN "parse" ELSE "split"
  /\ UNCHANGED << accept, provided, accepts, i, priorities, results >>

\* parseAccept over the segments, the stable sort, and the no-candidates branch
ParseSort ==
  /\ pc = "parse"
  /\ accepts' = SliceStable(parseAccept(parts))
  /\ IF Len(provided) = 0
       THEN /\ results' = Append(results, typesOfAccepts(accepts'))
            /\ pc' = "idle"
       ELSE /\ pc' = "match"
            /\ UNCHANGED results
  /\ UNCHANGED << accept, provided, rest, parts, i, priorities >>

\* one pass of the loop over provided; the map iteration of each specify
\* call runs in an order the runtime picks
MatchCandidate ==
  /\ pc = "match"
  /\ i < Len(provided)
  /\ \E ords \in KeyOrders(accepts) :
       LET priority == getMediaTypePriority(provided[i + 1], accepts, i, ords)
       IN priorities' = IF priority # Nil THEN Append(priorities, priority) ELSE priorities
  /\ i' = i + 1
  /\ UNCHANGED << accept, provided, rest, parts, accepts, pc, results >>

\* the candidates branch returns the accepted candidates
Return ==
  /\ pc = "match"
  /\ i = Len(provided)
  /\ results' = Append(results, typesOfPriorities(priorities, provided))
  /\ pc' = "idle"
  /\ UNCHANGED << accept, provided, rest, parts, accepts, i, priorities >>

Next == Call \/ SplitIter \/ ParseSort \/ MatchCandidate \/ Return

Spec == Init /\ [][Next]_vars

\* the runtime keeps executing a call that can take a step
FairSpec == Spec /\ WF_vars(Next)

(* ---------------------- the call as one function ---------------------- *)

RECURSIVE splitLoop(_, _)
\* the loop of splitMediaTypes run to its end; only for an accept on which
\* it ends (see splitEnds)
splitLoop(acc, ps) ==
  IF Len(acc) = 0 THEN ps
  ELSE LET n == splitBody(acc, ps)
       IN IF n.exit THEN n.parts ELSE splitLoop(n.accept, n.parts)

RECURSIVE splitEnds(_)
\* the loop of splitMediaTypes leaves acc: no pass repeats the state it began in
splitEnds(acc) ==
  IF Len(acc) = 0 THEN TRUE
  ELSE LET n == splitBody(acc, << >>)
       IN IF n.exit THEN TRUE
          ELSE IF n.parts = << >> /\ n.accept = TrimSpace(acc) THEN FALSE
          ELSE splitEnds(n.accept)

\* splitMediaTypes
splitMediaTypes(acc) == splitLoop(acc, << >>)

RECURSIVE matchLoop(_, _, _)
\* the loop over provided from candidate k (0-based) on
matchLoop(cands, sorted, k) ==
  IF k >= Len(cands) THEN << >>
  ELSE LET priority == getMediaTypePriority(cands[k + 1], sorted, k, SomeOrders(sorted))
       IN (IF priority # Nil THEN << priority >> ELSE << >>) \o matchLoop(cands, sorted, k + 1)

\* PreferredMediaTypes(acc, cands...) for an accept on which the split ends
PreferredMediaTypes(acc, cands) ==
  LET sorted == SliceStable(parseAccept(splitMediaTypes(effectiveAccept(acc))))
  IN IF Len(cands) = 0
       THEN typesOfAccepts(sorted)
       ELSE typesOfPriorities(matchLoop(cands, sorted, 0), cands)

(* ------------------------------ the claims ---------------------------- *)

\* a call has returned
Returned == pc = "idle" /\ results # << >>

\* what the latest call returned
Last == results[Len(results)]

\* the specs of the latest call in header order
Parsed == parseAccept(parts)

\* the text before the first ';' holds a '/'
HasSlashInBase(str) ==
  \E k \in 1..Len(str) : str[k] = "/" /\ \A j \in 1..(k - 1) : str[j] # ";"

\* the ordering rule: quality descending, specificity descending, index ascending
Precedes(a, b) ==
  \/ a.Q > b.Q
  \/ a.Q = b.Q /\ a.S > b.S
  \/ a.Q = b.Q /\ a.S = b.S /\ a.I < b.I

\* the accepted best matches of the latest call, in the order returned
KeptPriorities == SelectSeq(priorities, LAMBDA m : m.Q > 0)

\* C1: with candidates, the returned candidates are listed by the ordering
\* rule applied to their best matches: quality descending, then specificity
\* descending, then candidate index ascending
C1_OrderedByPreference ==
  (Returned /\ provided # << >>) =>
    /\ Len(Last) = Len(KeptPriorities)
    /\ \A m \in 1..Len(Last) : Last[m] = provided[KeptPriorities[m].I + 1]
    /\ \A m, n \in 1..Len(Last) :
         m < n => Precedes(KeptPriorities[m], KeptPriorities[n])

\* the best match of candidate c (1-based) against the sorted specs
BestMatch(c) == getMediaTypePriority(provided[c], accepts, c - 1, SomeOrders(accepts))

C3_SplitMakesProgress ==
  (pc = "split" /\ Len(rest) > 0) =>
    LET n == splitBody(rest, parts)
    IN n.exit \/ Len(n.accept) < Len(rest)

\* the position of the first comma of s preceded by an even number of
\* double quotes, 0 when there is none
SplitPoint(s) ==
  LET ok(k) == s[k] = "," /\ quoteCount(SubSeq(s, 1, k - 1)) % 2 = 0
  IN IF \E k \in 1..Len(s) : ok(k)
       THEN CHOOSE k \in 1..Len(s) : ok(k) /\ \A j \in 1..(k - 1) : ~ok(j)
       ELSE 0

RECURSIVE QuoteAwareSegments(_)
\* the segments of a header split only at commas outside double quotes
QuoteAwareSegments(s) ==
  IF Len(s) = 0 THEN << >>
  ELSE LET trimmed == TrimSpace(s)
           k == SplitPoint(trimmed)
       IN IF k = 0 THEN << trimmed >>
          ELSE << SubSeq(trimmed, 1, k - 1) >>
                 \o QuoteAwareSegments(SubSeq(trimmed, k + 1, Len(trimmed)))

\* C4: the header is split only at commas outside double-quoted text: a
\* call gets from splitMediaTypes the segments cut at the commas preceded by
\* an even number of double quotes, a comma inside quotes staying in its segment
C4_SplitsOutsideQuotes ==
  <>(pc = "parse" /\ parts = QuoteAwareSegments(effectiveAccept(accept)))

\* the specs of quality > 0 of the latest call, in header order
Positive == SelectSeq(Parsed, LAMBDA m : m.Q > 0)

\* the place the ordering gives the j-th positive spec
Rank(j) ==
  1 + Cardinality({ k \in 1..Len(Positive) :
                      \/ Positive[k].Q > Positive[j].Q
                      \/ Positive[k].Q = Positive[j].Q /\ k < j })

\* C5: without candidates the output is exactly the type/subtype of every
\* parsed entry of quality > 0, by quality descending, entries of equal
\* quality in header order
C5_AllTypesByQuality ==
  (Returned /\ provided = << >>) =>
    /\ Len(Last) = Len(Positive)
    /\ \A j \in 1..Len(Positive) :
         Last[Rank(j)] = Positive[j].Type \o << "/" >> \o Positive[j].Subtype

\* the sort moved a later entry of higher quality to the front
C5_Witness ==
  /\ Returned
  /\ provided = << >>
  /\ Len(Positive) = 2
  /\ Positive[1].Q < Positive[2].Q
  /\ Last[1] = << "a", "/", "b" >>

Matches(c, specs) ==
  { specify(provided[c], specs[k], c - 1, SomeOrders(specs)[k]) : k \in 1..Len(specs) } \ { Nil }

\* no match m is more specific than p, nor as specific and of higher quality
Governs(p, m) == m.S < p.S \/ (m.S = p.S /\ m.Q <= p.Q)

Reverse(s) == [k \in 1..Len(s) |-> s[Len(s) + 1 - k]]

RECURSIVE PickFrom(_, _, _)
\* the elements of s at the positions in keep, from position k on
PickFrom(s, keep, k) ==
  IF k > Len(s) THEN << >>
  ELSE (IF k \in keep THEN << s[k] >> ELSE << >>) \o PickFrom(s, keep, k + 1)

\* the candidates a governing match of quality > 0 accepts
AcceptedCands ==
  { c \in 1..Len(provided) :
      \E p \in Matches(c, Parsed) :
        p.Q > 0 /\ \A m \in Matches(c, Parsed) : Governs(p, m) }

\* C7: the match selected for a candidate is, among the specs matching it,
\* one of the highest specificity and among those one of the highest
\* quality, whatever the order of the header entries; a candidate nothing
\* matches is dropped; the candidates returned are those whose governing
\* match has quality > 0
C7_MostSpecificMatchGoverns ==
  (Returned /\ provided # << >>) =>
    /\ Len(priorities) = Cardinality({ c \in 1..Len(provided) : Matches(c, Parsed) # {} })
    /\ \A m, n \in 1..Len(priorities) : m < n => priorities[m].I < priorities[n].I
    /\ \A m \in 1..Len(priorities) :
         LET p == priorities[m]
             c == p.I + 1
             back == Reverse(Parsed)
             r == getMediaTypePriority(provided[c], back, c - 1, SomeOrders(back))
         IN /\ p \in Matches(c, Parsed)
            /\ \A x \in Matches(c, Parsed) : Governs(p, x)
            /\ r # Nil /\ r.S = p.S /\ r.Q = p.Q
    /\ Last = PickFrom(provided, AcceptedCands, 1)

\* an exact entry of lower quality governed a candidate a wildcard also matched
C7_Witness ==
  /\ Returned
  /\ \E m \in 1..Len(priorities) :
       \E x \in Matches(priorities[m].I + 1, Parsed) :
         x.S < priorities[m].S /\ x.Q > priorities[m].Q

\* the segments of the latest call whose base token holds a '/'
WellFormedParts == SelectSeq(parts, HasSlashInBase)

\* the accept value with the malformed segments removed
Stripped == Join(WellFormedParts)

\* parseMediaType returns nil for every malformed segment and for ""
MalformedAbsent ==
  /\ parseMediaType(<< >>, 0) = Nil
  /\ \A k \in 1..Len(parts) :
       ~HasSlashInBase(parts[k]) => parseMediaType(TrimSpace(parts[k]), k - 1) = Nil

\* C8 as stated: a malformed segment parses to nil, and every call returns
\* what it returns for the accept value with the malformed segments removed
C8_MalformedDropped ==
  Returned =>
    /\ MalformedAbsent
    /\ Last = PreferredMediaTypes(Stripped, provided)

\* C8 as amended: a malformed segment parses to nil, and a call whose accept
\* has a well-formed segment returns what it returns for the accept value
\* with the malformed segments removed
C8_MalformedDroppedSomeLeft ==
  Returned =>
    /\ MalformedAbsent
    /\ WellFormedParts # << >> => Last = PreferredMediaTypes(Stripped, provided)

\* a malformed segment stood beside a well-formed one and a type was returned
C8_Witness ==
  /\ Returned
  /\ WellFormedParts # << >>
  /\ Len(WellFormedParts) < Len(parts)
  /\ Last # << >>

\* no segment of the latest call has a '/' in its base token
AllMalformed == \A k \in 1..Len(parts) : ~HasSlashInBase(parts[k])

\* C9 as stated: an accept that is empty or entirely malformed yields the
\* empty list, with candidates and without
C9_EmptyOrMalformedYieldsNothing ==
  (Returned /\ (accept = << >> \/ AllMalformed)) => Last = << >>

\* C9 as amended: a non-empty accept that is entirely malformed yields the
\* empty list, with candidates and without; the empty accept is read as "*/*"
\* and yields "*/*" without candidates and, with candidates, those whose
\* text before the first ';' holds a '/'
C9_MalformedYieldsNothing ==
  Returned =>
    /\ (accept # << >> /\ AllMalformed) => Last = << >>
    /\ accept = << >> =>
         Last = IF provided = << >> THEN << << "*", "/", "*" >> >>
                ELSE SelectSeq(provided, HasSlashInBase)

\* an entirely malformed accept dropped a candidate that parses
C9_Witness ==
  /\ Returned
  /\ accept # << >>
  /\ AllMalformed
  /\ \E c \in 1..Len(provided) : HasSlashInBase(provided[c])
  /\ Last = << >>

\* C10: calls with the same accept and candidates return the same output,
\* whatever order the map iterations take, and no step of a call changes
\* the caller's accept or candidates
C10_Deterministic ==
  [][/\ accept' = accept
     /\ provided' = provided
     /\ \A m, n \in 1..Len(results') : results'[m] = results'[n]]_vars

\* two calls returned a candidate matched against a spec with two parameters
C10_Witness ==
  /\ Returned
  /\ Len(results) = 2
  /\ Last # << >>
  /\ \E k \in 1..Len(priorities) : Cardinality(DOMAIN priorities[k].Params) = 2

\* C11: with candidates, all of them media types, of which none has a best
\* match of quality > 0, the preferred media type, the first element of the
\* result, is the first candidate provided
C11_FallsBackToFirstProvided ==
  (/\ Returned
   /\ provided # << >>
   /\ \A c \in 1..Len(provided) : HasSlashInBase(provided[c])
   /\ \A c \in 1..Len(provided) : BestMatch(c) = Nil \/ BestMatch(c).Q <= 0) =>
    /\ Last # << >>
    /\ Last[1] = provided[1]

(* ------------------------- specify on its own -------------------------- *)

\* candidates handed to specify: those of a call, one whose only '/' stands
\* in a parameter, and one in another case with a parameter of its own
SpecifyCands ==
  CandTypes \cup
  { << "x", ";", "p", "=", "a", "/", "b" >>,
    << "A", "/", "B", ";", "r", "=", "2" >> }

\* further segments the specs handed to specify are parsed from: a wildcard
\* parameter value, a wildcard type, an empty parameter value
SpecifySegs ==
  { << "c", "/", "*", ";", "p", "=", "*" >>,
    << "*", "/", "d" >>,
    << "a", "/", "b", ";", "p", "=" >> }

\* the specs handed to specify
SpecifySpecs ==
  { parseMediaType(TrimSpace(seg), 0) : seg \in AcceptSegs \cup SpecifySegs } \ { Nil }

\* before a call specify(provided[1], &accepts[1], i)
InitSpecify ==
  /\ accept = << >>
  /\ provided \in { << c >> : c \in SpecifyCands }
  /\ rest = << >>
  /\ parts = << >>
  /\ accepts \in { << m >> : m \in SpecifySpecs }
  /\ i \in 0..MaxCands
  /\ priorities = << >>
  /\ pc = "specify"
  /\ results = << >>

\* specify runs, its range over spec.Params in an order the runtime picks;
\* priorities[1] holds what it returned
SpecifyCall ==
  /\ pc = "specify"
  /\ \E ord \in Perms(DOMAIN accepts[1].Params) :
       priorities' = << specify(provided[1], accepts[1], i, ord) >>
  /\ pc' = "specified"
  /\ UNCHANGED << accept, provided, rest, parts, accepts, i, results >>

NextSpecify == SpecifyCall

SpecifySpec == InitSpecify /\ [][NextSpecify]_vars

\* spec rules the parsed candidate p out: by its type, its subtype or a parameter
Mismatch(p, spec) ==
  \/ spec.Type # << "*" >> /\ ~EqualFold(spec.Type, p.Type)
  \/ spec.Subtype # << "*" >> /\ ~EqualFold(spec.Subtype, p.Subtype)
  \/ \E key \in DOMAIN spec.Params :
       /\ spec.Params[key] # << "*" >>
       /\ ~EqualFold(spec.Params[key], Lookup(p.Params, key))

\* 4 for an equal type, 2 for an equal subtype, 1 for a declared parameter
Score(p, spec) ==
  (IF EqualFold(spec.Type, p.Type) THEN 4 ELSE 0)
    + (IF EqualFold(spec.Subtype, p.Subtype) THEN 2 ELSE 0)
    + (IF DOMAIN spec.Params # {} THEN 1 ELSE 0)

\* a match is a copy of spec carrying the candidate's index and the score
MatchShape(got, cand, spec, index) ==
  got # Nil =>
    /\ got = [spec EXCEPT !.I = index, !.S = Score(parseMediaType(cand, 0), spec)]
    /\ got.S \in 0..7

\* a candidate that differs from cand only in parameters spec does not
\* declare (and in case) gets the same outcome
CandidateOnlyParamsIgnored(got, cand, spec, index) ==
  \A other \in SpecifyCands :
    LET p == parseMediaType(cand, 0)
        q == parseMediaType(other, 0)
    IN (/\ p # Nil
        /\ q # Nil
        /\ EqualFold(p.Type, q.Type)
        /\ EqualFold(p.Subtype, q.Subtype)
        /\ \A key \in DOMAIN spec.Params :
             Lookup(p.Params, key) = Lookup(q.Params, key)) =>
         \A ord \in Perms(DOMAIN spec.Params) : specify(other, spec, index, ord) = got

\* str holds no '/' at all
NoSlash(str) == \A k \in 1..Len(str) : str[k] # "/"

\* C12 as stated: specify returns nil exactly when the candidate has no '/'
\* or spec rules it out by type, subtype or a declared parameter (so a
\* candidate holding a '/' gets a match from a bare "*/*"); a match is a copy
\* of spec with the index given and the score 4 | 2 | 1; parameters only the
\* candidate has change nothing
C12_SpecifyOutcomeAsStated ==
  pc = "specified" =>
    LET got == priorities[1]
        cand == provided[1]
        spec == accepts[1]
    IN /\ NoSlash(cand) => got = Nil
       /\ HasSlashInBase(cand) => (got = Nil <=> Mismatch(parseMediaType(cand, 0), spec))
       /\ (/\ ~NoSlash(cand)
           /\ spec.Type = << "*" >>
           /\ spec.Subtype = << "*" >>
           /\ DOMAIN spec.Params = {}) => got # Nil
       /\ MatchShape(got, cand, spec, i)
       /\ CandidateOnlyParamsIgnored(got, cand, spec, i)

\* C12 as amended: specify returns nil exactly when the candidate's text
\* before its first ';' has no '/' or spec rules it out by type, subtype or
\* a declared parameter; a match is a copy of spec with the index given and
\* the score 4 | 2 | 1; parameters only the candidate has change nothing
C12_SpecifyOutcome ==
  pc = "specified" =>
    LET got == priorities[1]
        cand == provided[1]
        spec == accepts[1]
    IN /\ got = Nil <=> (\/ ~HasSlashInBase(cand)
                         \/ Mismatch(parseMediaType(cand, 0), spec))
       /\ MatchShape(got, cand, spec, i)
       /\ CandidateOnlyParamsIgnored(got, cand, spec, i)

\* a spec with two parameters matched a later candidate with the full score
C12_Witness ==
  /\ pc = "specified"
  /\ priorities[1] # Nil
  /\ priorities[1].S = 7
  /\ i > 0
  /\ priorities[1].I = i

====
